---- MODULE Spec2Model ----
(***************************************************************************)
(* Model of cmsmgmt: prefix resolution (database.IdentifyPrefixes and      *)
(* joomla.IdentifyPrefixes), configuration extraction (ExtractDBConfig of  *)
(* the joomla and wordpress packages) and the Joomla command flows of      *)
(* main.go (users list, users edit) through joomla.ProcessJoomla, and the  *)
(* version resolution and password hashing of the joomla package           *)
(* (GetVersion, parseMajorVersion, joomlaHashAuto).                        *)
(*                                                                         *)
(* Go strings are sequences of one-character strings, so that suffix       *)
(* tests, trimming, LIKE matching, host:port splitting and byte-wise       *)
(* ordering are computed rather than assumed.                              *)
(***************************************************************************)
EXTENDS Integers, Sequences, FiniteSets, TLC

VARIABLES
    tables,      \* the set of table names of the live database
    dbType,      \* the dbType argument handed to database.IdentifyPrefixes
    dbRes,       \* last return of database.IdentifyPrefixes
    jRes,        \* last return of joomla.IdentifyPrefixes
    dbSeen,      \* every prefix list database.IdentifyPrefixes has returned
    jSeen,       \* every prefix list joomla.IdentifyPrefixes has returned
    content,     \* the configuration file: a sequence of lines, or unreadable
    jExt,        \* last return of joomla.ExtractDBConfig
    wExt,        \* last return of wordpress.ExtractDBConfig
    cmd,         \* the command the invocation ran ("none" before it runs)
    pj,          \* return values of joomla.ProcessJoomla in the invocation
    resolved,    \* the prefix list IdentifyPrefixes gave ProcessJoomla
    stmts,       \* statements the invocation issued after ProcessJoomla, in order
    pathErr,     \* the error the Joomla path of the command ended with
    cmdErr,      \* the err variable the command's final check reads
    udata,       \* per prefix, the users-table row of the user being edited
    edit,        \* the run of EditUser: the row it read, the values typed, the fault
    info,        \* the run of joomla.ShowInfo: what it returned and what it was given
    conn,        \* database connections the invocation opened, and closed
    oldFile,     \* libraries/cms/version/version.php: lines, or unreadable
    newFile,     \* libraries/src/Version.php: lines, or unreadable
    ver,         \* last return of joomla.GetVersion
    hashed,      \* last return of joomlaHashAuto
    caps,        \* the capabilities string handed to identifyUserRole
    role,        \* last return of identifyUserRole
    userIds,     \* the ids of the rows of P_users for the listed prefix
    listed,      \* the lists joomla.ListUsers returned, one per call
    optPath,     \* value of -p/--path on the command line, "" when omitted
    dirs,        \* directory -> whether it exists and the files in it
    cmsPath,     \* the package variable cmsPath
    phase,       \* "start", "parsed", "fatal" or "done"
    detected,    \* what detectCMS returned, NotRun before
    wpEdit       \* the run of wordpress.EditUser: its error and the statements it issued

vars == <<tables, dbType, dbRes, jRes, dbSeen, jSeen, content, jExt, wExt,
          cmd, pj, resolved, stmts, pathErr, cmdErr, udata, edit, info, conn,
          oldFile, newFile, ver, hashed,
          caps, role,
          userIds, listed,
          optPath, dirs, cmsPath, phase, detected,
          wpEdit>>

resolveVars == <<tables, dbType, dbRes, jRes, dbSeen, jSeen>>
extractVars == <<content, jExt, wExt>>
flowVars    == <<cmd, pj, resolved, stmts, pathErr, cmdErr, udata, edit, info,
                 conn>>
versionVars == <<oldFile, newFile, ver, hashed>>
roleVars == <<caps, role>>
listVars == <<userIds, listed>>
pathVars == <<optPath, dirs, cmsPath, phase, detected>>
wpVars == <<wpEdit>>

----------------------------------------------------------------------------
(* Bounds *)

MaxTables == 5
MaxLines  == 2
MaxVerLines == 3
MaxCapParts == 3
MaxUsers == 3
MaxCalls == 2

----------------------------------------------------------------------------
(* Strings *)

\* The characters the model uses, in ascending byte order.
ByteOrder ==
    << "%", "-", "0", "3", "6", "7", ":", "J", "M", "P", "Q", "S", "Y", "[", "\\", "]", "_",
       "a", "b", "d", "e", "g", "h", "i", "j", "l", "m", "n", "o", "p", "q",
       "r", "s", "t", "u", "w", "x", "y" >>

Code(c) == CHOOSE i \in 1..Len(ByteOrder) : ByteOrder[i] = c

Min(a, b) == IF a < b THEN a ELSE b

\* Go's string comparison s < t: byte-wise lexicographic.
StrLess(s, t) ==
    \E i \in 1..(Min(Len(s), Len(t)) + 1) :
        /\ \A k \in 1..(i - 1) : s[k] = t[k]
        /\ \/ i > Len(s) /\ i <= Len(t)
           \/ i <= Len(s) /\ i <= Len(t) /\ Code(s[i]) < Code(t[i])

HasSuffix(s, suf) ==
    /\ Len(s) >= Len(suf)
    /\ SubSeq(s, Len(s) - Len(suf) + 1, Len(s)) = suf

TrimSuffix(s, suf) ==
    IF HasSuffix(s, suf) THEN SubSeq(s, 1, Len(s) - Len(suf)) ELSE s

UpperCase == <<"A", "B", "C", "D", "E", "F", "G", "H", "I", "J", "K", "L", "M", "N",
               "O", "P", "Q", "R", "S", "T", "U", "V", "W", "X", "Y", "Z">>
LowerCase == <<"a", "b", "c", "d", "e", "f", "g", "h", "i", "j", "k", "l", "m", "n",
               "o", "p", "q", "r", "s", "t", "u", "v", "w", "x", "y", "z">>

LowerChar(c) ==
    IF \E i \in 1..Len(UpperCase) : UpperCase[i] = c
    THEN LowerCase[CHOOSE i \in 1..Len(UpperCase) : UpperCase[i] = c]
    ELSE c

ToLower(s) == [i \in 1..Len(s) |-> LowerChar(s[i])]

Range(q) == {q[i] : i \in 1..Len(q)}

\* Every order in which the elements of a finite set can be delivered.
RECURSIVE SetToSeq(_)
SetToSeq(S) ==
    IF S = {} THEN <<>>
    ELSE LET e == CHOOSE x \in S : TRUE IN <<e>> \o SetToSeq(S \ {e})

Orders(S) ==
    LET base == SetToSeq(S)
    IN  {[i \in 1..Len(base) |-> base[pi[i]]] : pi \in Permutations(1..Len(base))}

Count(x, q) == Cardinality({i \in 1..Len(q) : q[i] = x})

RECURSIVE Insert(_, _)
Insert(x, q) ==
    IF q = <<>> THEN <<x>>
    ELSE IF StrLess(x, Head(q)) THEN <<x>> \o q
    ELSE <<Head(q)>> \o Insert(x, Tail(q))

RECURSIVE InsertionSort(_)
InsertionSort(q) ==
    IF q = <<>> THEN <<>> ELSE Insert(Head(q), InsertionSort(Tail(q)))

Unsorted(q) == q

\* sort.Strings
SortStrings(q) == InsertionSort(q)

----------------------------------------------------------------------------
(* Table names *)

sUsers      == <<"_", "u", "s", "e", "r", "s">>
sPosts      == <<"_", "p", "o", "s", "t", "s">>
sUserMap    == <<"_", "u", "s", "e", "r", "_", "u", "s", "e", "r", "g", "r",
                 "o", "u", "p", "_", "m", "a", "p">>
sUserGroups == <<"_", "u", "s", "e", "r", "g", "r", "o", "u", "p", "s">>
sOptions    == <<"_", "o", "p", "t", "i", "o", "n", "s">>

pWp == <<"w", "p">>
pJm == <<"J", "m">>
pJu == <<"J", "_">>

\* The tables a listing can hold: a prefix with every companion table, a
\* prefix that differs from it in one character, which is an underscore, and
\* a table no suffix rule matches.
TableUniverse ==
    { pJm \o sUsers, pJm \o sPosts, pJm \o sUserMap, pJm \o sUserGroups,
      pJu \o sUsers, pJu \o sPosts,
      pWp \o sOptions }

Listings == {S \in SUBSET TableUniverse : Cardinality(S) <= MaxTables}

tMysql    == <<"m", "y", "s", "q", "l">>
tMysqli   == <<"m", "y", "s", "q", "l", "i">>
tPostgres == <<"p", "o", "s", "t", "g", "r", "e", "s">>
tMySQLi   == <<"M", "y", "S", "Q", "L", "i">>
tPgsql    == <<"p", "g", "s", "q", "l">>

DbTypes == {tMySQLi, tPostgres, tPgsql}

----------------------------------------------------------------------------
(* database.IdentifyPrefixes *)

NoFlags == [users |-> FALSE, posts |-> FALSE, userMap |-> FALSE, userGroups |-> FALSE]

\* seen[p], creating the flags record when the prefix is new.
FlagsOf(seen, p) == IF p \in DOMAIN seen THEN seen[p] ELSE NoFlags

Put(seen, p, f) == [q \in (DOMAIN seen) \cup {p} |-> IF q = p THEN f ELSE seen[q]]

\* The body of the rows.Next() loop: the switch over the table's suffix.
ScanTable(seen, tbl) ==
    IF HasSuffix(tbl, sUsers) THEN
        LET p == TrimSuffix(tbl, sUsers)
        IN  Put(seen, p, [FlagsOf(seen, p) EXCEPT !.users = TRUE])
    ELSE IF HasSuffix(tbl, sPosts) THEN
        LET p == TrimSuffix(tbl, sPosts)
        IN  Put(seen, p, [FlagsOf(seen, p) EXCEPT !.posts = TRUE])
    ELSE IF HasSuffix(tbl, sUserMap) THEN
        LET p == TrimSuffix(tbl, sUserMap)
        IN  Put(seen, p, [FlagsOf(seen, p) EXCEPT !.userMap = TRUE])
    ELSE IF HasSuffix(tbl, sUserGroups) THEN
        LET p == TrimSuffix(tbl, sUserGroups)
        IN  Put(seen, p, [FlagsOf(seen, p) EXCEPT !.userGroups = TRUE])
    ELSE seen

RECURSIVE ScanRows(_, _)
ScanRows(seen, rows) ==
    IF rows = <<>> THEN seen ELSE ScanRows(ScanTable(seen, Head(rows)), Tail(rows))

EmptyMap == [p \in {} |-> NoFlags]

KeepWithoutUsers(f) == TRUE

\* the "never keep a prefix without _users" guard of the result loop
HasUsers(f) == f.users

ShapeRequiresPosts(f) == f.posts

ShapeJoomlaOnly(f) == f.userMap \/ f.userGroups

\* the shape condition of the result loop, with Go's operator precedence
ShapeOK(f) ==
    \/ f.posts
    \/ (f.userMap /\ f.userGroups)
    \/ (f.userMap \/ (f.userGroups /\ f.posts))

AppendTwice(out, p) == out \o <<p, p>>

\* prefixes = append(prefixes, p)
AppendPrefix(out, p) == Append(out, p)

\* The result loop over the map, visiting its keys in the order given.
RECURSIVE Collect(_, _, _)
Collect(seen, order, out) ==
    IF order = <<>> THEN out
    ELSE LET p == Head(order)
             f == seen[p]
         IN  IF HasUsers(f) /\ ShapeOK(f)
             THEN Collect(seen, Tail(order), AppendPrefix(out, p))
             ELSE Collect(seen, Tail(order), out)

SupportedType(t) == ToLower(t) \in {tMysql, tMysqli, tPostgres}

NotCalled == [called |-> FALSE, err |-> "nil", prefixes |-> <<>>]
Returned(q) == [called |-> TRUE, err |-> "nil", prefixes |-> q]
Failed(e) == [called |-> TRUE, err |-> e, prefixes |-> <<>>]

\* Every return database.IdentifyPrefixes(db, dbType) can make on a database
\* holding the tables tbls: the listing query delivers the tables in an order
\* of the database's choosing, and the result loop ranges over the map in an
\* order of the runtime's choosing.
DbIdentifyOutcomes(tbls, type) ==
    IF ~SupportedType(type) THEN {Failed("unsupported")}
    ELSE {Failed("query")}
         \cup (IF tbls = {} THEN {} ELSE {Failed("scan")})
         \cup UNION { LET seen == ScanRows(EmptyMap, rows)
                      IN  { Returned(SortStrings(Collect(seen, order, <<>>))) :
                              order \in Orders(DOMAIN seen) } :
                      rows \in Orders(tbls) }

DbIdentifyPrefixes ==
    /\ \E r \in DbIdentifyOutcomes(tables, dbType) :
         /\ dbRes' = r
         /\ dbSeen' = IF r.err = "nil" THEN dbSeen \cup {r.prefixes} ELSE dbSeen
    /\ UNCHANGED <<tables, dbType, jRes, jSeen>>
    /\ UNCHANGED <<extractVars, flowVars, versionVars, roleVars, listVars, pathVars, wpVars>>

----------------------------------------------------------------------------
(* joomla.IdentifyPrefixes *)

\* A LIKE pattern: "%" is any run of characters, "_" any one character, and a
\* backslash makes the next character literal.
RECURSIVE LikePattern(_)
LikePattern(t) ==
    IF t = <<>> THEN <<>>
    ELSE IF Head(t) = "\\" /\ Len(t) >= 2 THEN <<t[2]>> \o LikePattern(Tail(Tail(t)))
    ELSE IF Head(t) = "%" THEN <<"ANY">> \o LikePattern(Tail(t))
    ELSE IF Head(t) = "_" THEN <<"ONE">> \o LikePattern(Tail(t))
    ELSE <<Head(t)>> \o LikePattern(Tail(t))

RECURSIVE LikeMatch(_, _)
LikeMatch(pat, s) ==
    IF pat = <<>> THEN s = <<>>
    ELSE IF Head(pat) = "ANY"
         THEN \E k \in 0..Len(s) : LikeMatch(Tail(pat), SubSeq(s, k + 1, Len(s)))
    ELSE /\ s # <<>>
         /\ (Head(pat) = "ONE" \/ Head(pat) = Head(s))
         /\ LikeMatch(Tail(pat), Tail(s))

\* SHOW TABLES LIKE t: the tables the pattern selects
ShowTablesLike(tbls, t) == {tbl \in tbls : LikeMatch(LikePattern(t), tbl)}

\* the pattern text of the first query, '%\_users'
UsersLike == <<"%", "\\">> \o sUsers

\* need := []string{prefix + "_user_usergroup_map", prefix + "_usergroups"}
Need(prefix) == <<prefix \o sUserMap, prefix \o sUserGroups>>

\* the loop over need: ok stays true while every probe finds a row
CompanionsOK(tbls, prefix) ==
    \A i \in 1..Len(Need(prefix)) : ShowTablesLike(tbls, Need(prefix)[i]) # {}

RECURSIVE JCollect(_, _, _)
JCollect(tbls, rows, out) ==
    IF rows = <<>> THEN out
    ELSE LET prefix == TrimSuffix(Head(rows), sUsers)
         IN  IF CompanionsOK(tbls, prefix)
             THEN JCollect(tbls, Tail(rows), Append(out, prefix))
             ELSE JCollect(tbls, Tail(rows), out)

\* Every return joomla.IdentifyPrefixes(db) can make on the tables tbls.
JIdentifyOutcomes(tbls) ==
    LET matching == ShowTablesLike(tbls, UsersLike)
    IN  {Failed("query")}
        \cup (IF matching = {} THEN {} ELSE {Failed("scan")})
        \cup { Returned(SortStrings(JCollect(tbls, rows, <<>>))) :
                 rows \in Orders(matching) }

JIdentifyPrefixes ==
    /\ \E r \in JIdentifyOutcomes(tables) :
         /\ jRes' = r
         /\ jSeen' = IF r.err = "nil" THEN jSeen \cup {r.prefixes} ELSE jSeen
    /\ UNCHANGED <<tables, dbType, dbRes, dbSeen>>
    /\ UNCHANGED <<extractVars, flowVars, versionVars, roleVars, listVars, pathVars, wpVars>>

----------------------------------------------------------------------------
(* Configuration text *)

\* A configuration text is a sequence of key assignments, key = 'val'.  The
\* Joomla form of a line is  public $key = 'val';  and the WordPress form is
\* define('DB_KEY', 'val').  A line with key "other" assigns a key neither
\* extractor has a pattern for, and an empty val is the assignment key = ''.
empty == <<>>

\* Host values, one or more for every way net.SplitHostPort and strconv.Atoi
\* can go: no port, host:port, a port that is no number, an empty port, an
\* empty host, too many colons, bracketed hosts well and ill formed, signs.
HostValues ==
    { <<"h">>, <<"h", ":", "7">>, <<"h", ":", "3", "3", "0", "6">>,
      <<"h", ":", "7", "h">>, <<"h", ":">>, <<":", "7">>,
      <<"h", ":", "7", ":", "7">>,
      <<"[", "h", "]", ":", "7">>, <<"[", "h", "]">>, <<"[", "h", ":", "7">>,
      <<"h", "]", ":", "7">>, <<"[", "h", "]", "7", ":", "7">>,
      <<"h", ":", "-", "7">>, <<"h", ":", "-">> }

vDb   == <<"d", "b">>
vUser == <<"r", "o", "o", "t">>
vPass == <<"p", "w">>

ConfigLines ==
    {[key |-> "host", val |-> v] : v \in HostValues}
    \cup {[key |-> "dbtype", val |-> v] : v \in {tMySQLi, tPostgres, tPgsql}}
    \cup {[key |-> "dbprefix", val |-> v] : v \in {pJm \o <<"_">>, pWp, <<"_">>, empty}}
    \cup { [key |-> "db", val |-> vDb], [key |-> "user", val |-> vUser],
           [key |-> "password", val |-> vPass], [key |-> "other", val |-> vDb] }

RECURSIVE SeqsUpTo(_, _)
SeqsUpTo(S, n) ==
    IF n = 0 THEN {<<>>}
    ELSE LET shorter == SeqsUpTo(S, n - 1)
         IN  shorter \cup {Append(q, x) : q \in shorter, x \in S}

Unreadable == [readable |-> FALSE, lines |-> <<>>]
Text(lines) == [readable |-> TRUE, lines |-> lines]

Contents == {Unreadable} \cup {Text(ls) : ls \in SeqsUpTo(ConfigLines, MaxLines)}

----------------------------------------------------------------------------
(* ExtractDBConfig *)

NoMatch == [found |-> FALSE, val |-> empty]

\* re.FindStringSubmatch for the pattern of one key: the leftmost assignment
\* of the key whose quoted value is not empty (the group is [^']+ or .+).
FindStringSubmatch(lines, key) ==
    LET hits == {i \in 1..Len(lines) : lines[i].key = key /\ lines[i].val # empty}
    IN  IF hits = {} THEN NoMatch
        ELSE [found |-> TRUE,
              val |-> lines[CHOOSE i \in hits : \A k \in hits : i <= k].val]

IndexByte(s, c) ==
    LET at == {i \in 1..Len(s) : s[i] = c}
    IN  IF at = {} THEN 0 ELSE CHOOSE i \in at : \A k \in at : i <= k

LastIndexByte(s, c) ==
    LET at == {i \in 1..Len(s) : s[i] = c}
    IN  IF at = {} THEN 0 ELSE CHOOSE i \in at : \A k \in at : i >= k

SplitError == [err |-> TRUE, host |-> empty, port |-> empty]

\* net.SplitHostPort; positions are 1-based, 0 standing for "not found".
SplitHostPort(hostport) ==
    LET n   == Len(hostport)
        i   == LastIndexByte(hostport, ":")
        end == IndexByte(hostport, "]")
    IN  IF i = 0 THEN SplitError
        ELSE IF hostport[1] = "["
        THEN IF end = 0 THEN SplitError
             ELSE IF end = n THEN SplitError
             ELSE IF end + 1 # i THEN SplitError
             ELSE IF IndexByte(SubSeq(hostport, 2, n), "[") # 0 THEN SplitError
             ELSE IF IndexByte(SubSeq(hostport, end + 1, n), "]") # 0 THEN SplitError
             ELSE [err |-> FALSE, host |-> SubSeq(hostport, 2, end - 1),
                   port |-> SubSeq(hostport, i + 1, n)]
        ELSE IF IndexByte(SubSeq(hostport, 1, i - 1), ":") # 0 THEN SplitError
             ELSE IF IndexByte(hostport, "[") # 0 THEN SplitError
             ELSE IF IndexByte(hostport, "]") # 0 THEN SplitError
             ELSE [err |-> FALSE, host |-> SubSeq(hostport, 1, i - 1),
                   port |-> SubSeq(hostport, i + 1, n)]

Digits == {"0", "1", "2", "3", "4", "5", "6", "7", "8", "9"}

DigitVal(c) ==
    CASE c = "0" -> 0 [] c = "1" -> 1 [] c = "2" -> 2 [] c = "3" -> 3
      [] c = "4" -> 4 [] c = "5" -> 5 [] c = "6" -> 6 [] c = "7" -> 7
      [] c = "8" -> 8 [] c = "9" -> 9

RECURSIVE DecimalVal(_)
DecimalVal(ds) ==
    IF ds = <<>> THEN 0
    ELSE 10 * DecimalVal(SubSeq(ds, 1, Len(ds) - 1)) + DigitVal(ds[Len(ds)])

AtoiError == [err |-> TRUE, n |-> 0]

\* strconv.Atoi: an optional sign and one or more decimal digits.  The ports
\* of the model have at most four digits, far inside the range of int.
Atoi(s) ==
    LET signed == s # <<>> /\ s[1] \in {"+", "-"}
        ds     == IF signed THEN Tail(s) ELSE s
    IN  IF ds = <<>> \/ \E k \in 1..Len(ds) : ds[k] \notin Digits THEN AtoiError
        ELSE [err |-> FALSE,
              n |-> IF signed /\ s[1] = "-" THEN 0 - DecimalVal(ds) ELSE DecimalVal(ds)]

ZeroCfg ==
    [Type |-> empty, Host |-> empty, Port |-> 0,
     User |-> empty, Password |-> empty, DBName |-> empty]

TypeOnlyCfg == [ZeroCfg EXCEPT !.Type = tMysql]

\* cfg := database.DBConfig{Type: "mysql", Port: 3306}
DefaultCfg == [ZeroCfg EXCEPT !.Type = tMysql, !.Port = 3306]

HostUnsplit(cfg, hostPort) == [cfg EXCEPT !.Host = hostPort]

\* the DBHost case of the switch
SetHost(cfg, hostPort) ==
    LET sp == SplitHostPort(hostPort)
    IN  IF ~sp.err
        THEN LET pn == Atoi(sp.port)
             IN  IF ~pn.err
                 THEN [cfg EXCEPT !.Host = sp.host, !.Port = pn.n]
                 ELSE [cfg EXCEPT !.Host = sp.host]
        ELSE [cfg EXCEPT !.Host = hostPort]

\* the DBType case of the switch (joomla package)
SetType(cfg, v) ==
    LET t == ToLower(v)
    IN  [cfg EXCEPT !.Type = IF t = tMysqli THEN tMysql ELSE t]

\* One turn of the loop over the patterns map: the switch on the key.
ApplyKey(st, lines, key) ==
    LET m == FindStringSubmatch(lines, key)
    IN  IF ~m.found THEN st
        ELSE CASE key = "dbtype"   -> [st EXCEPT !.cfg = SetType(st.cfg, m.val)]
               [] key = "db"       -> [st EXCEPT !.cfg.DBName = m.val]
               [] key = "user"     -> [st EXCEPT !.cfg.User = m.val]
               [] key = "password" -> [st EXCEPT !.cfg.Password = m.val]
               [] key = "host"     -> [st EXCEPT !.cfg = SetHost(st.cfg, m.val)]
               [] key = "dbprefix" -> [st EXCEPT !.prefix = TrimSuffix(m.val, <<"_">>)]

RECURSIVE ApplyKeys(_, _, _)
ApplyKeys(st, lines, order) ==
    IF order = <<>> THEN st
    ELSE ApplyKeys(ApplyKey(st, lines, Head(order)), lines, Tail(order))

JoomlaKeys == {"dbtype", "db", "user", "password", "host", "dbprefix"}
WordPressKeys == {"db", "user", "password", "host"}

NotExtracted == [called |-> FALSE, err |-> "nil", cfg |-> ZeroCfg, prefix |-> empty]

\* Every return of ExtractDBConfig over the keys of one package.  The loop
\* ranges over the patterns map in an order of the runtime's choosing; a turn
\* whose pattern finds no match changes nothing, so the orders of the loop are
\* the orders of the keys that match.
ExtractOutcomes(c, keys) ==
    IF ~c.readable
    THEN {[called |-> TRUE, err |-> "read", cfg |-> ZeroCfg, prefix |-> empty]}
    ELSE LET matching == {k \in keys : FindStringSubmatch(c.lines, k).found}
         IN  { ApplyKeys([called |-> TRUE, err |-> "nil", cfg |-> DefaultCfg,
                          prefix |-> empty], c.lines, order) :
                 order \in Orders(matching) }

\* joomla.ExtractDBConfig(filePath)
JoomlaExtractDBConfig ==
    /\ \E r \in ExtractOutcomes(content, JoomlaKeys) : jExt' = r
    /\ UNCHANGED <<content, wExt>>
    /\ UNCHANGED <<resolveVars, flowVars, versionVars, roleVars, listVars, pathVars, wpVars>>

\* wordpress.ExtractDBConfig(filePath); it returns no prefix
WordPressExtractDBConfig ==
    /\ \E r \in ExtractOutcomes(content, WordPressKeys) : wExt' = r
    /\ UNCHANGED <<content, jExt>>
    /\ UNCHANGED <<resolveVars, flowVars, versionVars, roleVars, listVars, pathVars, wpVars>>

----------------------------------------------------------------------------
(* joomla.ProcessJoomla *)

NoReturn == [db |-> "nil", cfg |-> ZeroCfg, defaultPrefix |-> empty, err |-> "nil"]

\* database.Connect: the switch on config.Type, then sql.Open and db.Ping,
\* either of which the database may refuse.
ConnectOutcomes(cfg) ==
    IF cfg.Type \in {tMysql, tMysqli, tPostgres} THEN {"nil", "connect"}
    ELSE {"unsupported"}

\* joomla.IdentifyPrefixes on the connection: SHOW TABLES is a MySQL
\* statement, which a PostgreSQL server rejects.
IdentifyOn(cfg, tbls) ==
    IF cfg.Type = tPostgres THEN {Failed("query")} ELSE JIdentifyOutcomes(tbls)

FirstResolved(defaultPrefix, prefixes) ==
    IF prefixes # <<>> THEN prefixes[1] ELSE defaultPrefix

\* The prefix ProcessJoomla returns once the prefixes are identified: the
\* fallback assigns the local prefixes only, and defaultPrefix is returned.
ReturnedPrefix(defaultPrefix, prefixes) ==
    LET fallback == IF Len(prefixes) = 0 /\ defaultPrefix # empty
                    THEN <<defaultPrefix>> ELSE prefixes
    IN  defaultPrefix

\* Every return of ProcessJoomla(cmsPath), with the list IdentifyPrefixes gave.
ProcessJoomlaOutcomes(c, tbls) ==
    UNION {
      IF x.err # "nil"
      THEN {[db |-> "nil", cfg |-> x.cfg, defaultPrefix |-> empty,
             err |-> "extract", resolved |-> NotCalled]}
      ELSE UNION {
        IF ce # "nil"
        THEN {[db |-> "nil", cfg |-> x.cfg, defaultPrefix |-> empty,
               err |-> "connect", resolved |-> NotCalled]}
        ELSE { IF r.err # "nil"
               THEN [db |-> "nil", cfg |-> x.cfg, defaultPrefix |-> empty,
                     err |-> "identify", resolved |-> r]
               ELSE [db |-> "open", cfg |-> x.cfg,
                     defaultPrefix |-> ReturnedPrefix(x.prefix, r.prefixes),
                     err |-> "nil", resolved |-> r] :
               r \in IdentifyOn(x.cfg, tbls) } :
        ce \in ConnectOutcomes(x.cfg) } :
      x \in ExtractOutcomes(c, JoomlaKeys) }

----------------------------------------------------------------------------
(* joomla.ListUsers, joomla.GetUserByUsername, joomla.EditUser *)

NoRow == [exists |-> FALSE, name |-> "", email |-> "", password |-> "", roles |-> {}]
Row0  == [exists |-> TRUE, name |-> "n0", email |-> "e0", password |-> "h0",
          roles |-> {"Registered"}]

\* the titles every usergroups table of the model holds
Groups == {"Registered", "Manager"}

Stmt(op, prefix) == [op |-> op, prefix |-> prefix]

\* the three tables the listing and lookup queries join
Joined(prefix) == {prefix \o sUsers, prefix \o sUserMap, prefix \o sUserGroups}

RowOf(data, prefix) == IF prefix \in DOMAIN data THEN data[prefix] ELSE NoRow

\* The replacement values read from the terminal, already trimmed; "" and <<>>
\* are the empty line that keeps the current value.
Inputs ==
    [name : {"", "n0", "n1"}, email : {"", "e1"}, pass : {"", "pw"},
     roles : {<<>>, <<"Registered">>, <<"Manager">>, <<"Nobody">>,
              <<"Registered", "Manager">>}]

\* Where the database (or the hash) may fail one run of EditUser.
\* The _exec faults are errors of the statement; the _rows faults are
\* statements that succeed on a number of rows other than one.
Faults ==
    {"none", "lookup", "begin", "hash", "pw_exec", "pw_rows", "del_exec",
     "del_rows", "sel_exec", "ins_exec", "ins_rows", "prof_exec", "prof_rows",
     "commit"}

Log(s, op, prefix) == [s EXCEPT !.log = Append(@, Stmt(op, prefix))]

AbortWithoutRollback(s, prefix, e) == [s EXCEPT !.done = TRUE, !.err = e]

\* tx.Rollback() followed by the error return
Abort(s, prefix, e) == [Log(s, "rollback", prefix) EXCEPT !.done = TRUE, !.err = e]

\* 4) password update
StepPassword(s, prefix, in, fault) ==
    IF s.done \/ in.pass = "" THEN s
    ELSE IF fault = "hash" THEN Abort(s, prefix, "hash password")
    ELSE LET s1 == Log(s, "update_password", prefix)
         IN  IF fault = "pw_exec" THEN Abort(s1, prefix, "update password")
             ELSE IF fault = "pw_rows" THEN Abort(s1, prefix, "password rows")
             ELSE [s1 EXCEPT !.w.password = "hashed"]

\* the loop over the titles of rolesCSV: look the group up, insert when found
RECURSIVE InsertRoles(_, _, _, _)
InsertRoles(s, prefix, titles, fault) ==
    IF s.done \/ titles = <<>> THEN s
    ELSE LET title == Head(titles)
             s1 == Log(s, "select_group", prefix)
         IN  IF title \in Groups /\ fault # "sel_exec"
             THEN LET s2 == Log(s1, "insert_role", prefix)
                  IN  IF fault = "ins_exec"
                      THEN Abort(s2, prefix, "insert role")
                      ELSE IF fault = "ins_rows"
                      THEN InsertRoles(s2, prefix, Tail(titles), fault)
                      ELSE InsertRoles([s2 EXCEPT !.w.roles = @ \cup {title}],
                                       prefix, Tail(titles), fault)
             ELSE InsertRoles(s1, prefix, Tail(titles), fault)

\* 5) roles update
StepRoles(s, prefix, in, fault) ==
    IF s.done \/ in.roles = <<>> THEN s
    ELSE LET s1 == Log(s, "delete_roles", prefix)
         IN  IF fault = "del_exec" THEN Abort(s1, prefix, "clear roles")
             ELSE InsertRoles([s1 EXCEPT !.w.roles = {}], prefix, in.roles, fault)

\* 6) name/email update
StepProfile(s, prefix, user, in, fault) ==
    LET name  == IF in.name = "" THEN user.name ELSE in.name
        email == IF in.email = "" THEN user.email ELSE in.email
    IN  IF s.done \/ (name = user.name /\ email = user.email) THEN s
        ELSE LET s1 == Log(s, "update_profile", prefix)
             IN  IF fault = "prof_exec" THEN Abort(s1, prefix, "update name/email")
                 ELSE IF fault = "prof_rows" THEN Abort(s1, prefix, "name/email rows")
                 ELSE [s1 EXCEPT !.w.name = name, !.w.email = email]

\* 7) commit
StepCommit(s, prefix, fault) ==
    IF s.done THEN s
    ELSE LET s1 == Log(s, "commit", prefix)
         IN  IF fault = "commit" THEN [s1 EXCEPT !.done = TRUE, !.err = "commit"]
             ELSE [s1 EXCEPT !.done = TRUE, !.committed = TRUE]

\* One run of EditUser(db, prefix, cmsPath, username) on the tables tbls,
\* with the replacement values in and the failure point fault.
EditUser(tbls, data, prefix, in, fault) ==
    LET user == RowOf(data, prefix)
        s0 == [w |-> user, log |-> <<Stmt("get_user", prefix)>>,
               done |-> FALSE, err |-> "nil", committed |-> FALSE]
    IN  IF ~(Joined(prefix) \subseteq tbls) \/ ~user.exists \/ fault = "lookup"
        THEN [s0 EXCEPT !.done = TRUE, !.err = "get user"]
        ELSE IF fault = "begin"
        THEN [s0 EXCEPT !.done = TRUE, !.err = "begin tx"]
        ELSE LET s1 == Log(s0, "begin", prefix)
                 s2 == StepPassword(s1, prefix, in, fault)
                 s3 == StepRoles(s2, prefix, in, fault)
                 s4 == StepProfile(s3, prefix, user, in, fault)
             IN  StepCommit(s4, prefix, fault)

StoredUnconditionally(data, prefix, s) ==
    IF prefix \in DOMAIN data THEN [data EXCEPT ![prefix] = s.w] ELSE data

\* the rows after the run: the transaction's writes when it committed
Stored(data, prefix, s) ==
    IF s.committed THEN [data EXCEPT ![prefix] = s.w] ELSE data

----------------------------------------------------------------------------
(* main.go: the Joomla branch of users list and users edit *)

NoConn == [opened |-> 0, closed |-> 0]

\* The connections of a ProcessJoomla call: Connect opened one unless the
\* configuration or Connect failed; ProcessJoomla closes it when
\* IdentifyPrefixes fails and otherwise returns it open.
ConnOfProcessJoomla(o) ==
    [opened |-> IF o.err \in {"extract", "connect"} THEN 0 ELSE 1,
     closed |-> IF o.err = "identify" THEN 1 ELSE 0]

\* The connections of a ShowInfo call: defer db.Close() after Connect.
ConnOfShowInfo(o) ==
    IF o.err \in {"extract", "connect"} THEN NoConn
    ELSE [opened |-> 1, closed |-> 1]

\* listUsers: ProcessJoomla, then ListUsers on the returned prefix when it
\* returned no error.  The err of the branch is declared by := inside it, so
\* the err the final check reads stays nil.
UsersList ==
    /\ cmd = "none"
    /\ \E o \in ProcessJoomlaOutcomes(content, tables) :
         /\ pj' = [db |-> o.db, cfg |-> o.cfg, defaultPrefix |-> o.defaultPrefix,
                   err |-> o.err]
         /\ resolved' = o.resolved
         /\ IF o.err = "nil"
            THEN /\ stmts' = <<Stmt("list_users", o.defaultPrefix)>>
                 /\ \E fault \in {"none", "query"} :
                      pathErr' = IF Joined(o.defaultPrefix) \subseteq tables
                                    /\ fault = "none"
                                 THEN "nil" ELSE "list users"
            ELSE stmts' = <<>> /\ pathErr' = o.err
         /\ conn' = ConnOfProcessJoomla(o)
    /\ cmd' = "list"
    /\ cmdErr' = "nil"
    /\ UNCHANGED <<udata, edit, info>>
    /\ UNCHANGED <<resolveVars, extractVars, versionVars, roleVars, listVars, pathVars, wpVars>>

\* editUser: ProcessJoomla, then EditUser on the returned prefix when it
\* returned no error; err is shadowed as in listUsers.
UsersEdit ==
    /\ cmd = "none"
    /\ \E o \in ProcessJoomlaOutcomes(content, tables) :
         /\ pj' = [db |-> o.db, cfg |-> o.cfg, defaultPrefix |-> o.defaultPrefix,
                   err |-> o.err]
         /\ resolved' = o.resolved
         /\ IF o.err = "nil"
            THEN \E in \in Inputs, fault \in Faults :
                   LET s == EditUser(tables, udata, o.defaultPrefix, in, fault)
                   IN  /\ stmts' = s.log
                       /\ pathErr' = s.err
                       /\ udata' = Stored(udata, o.defaultPrefix, s)
                       /\ edit' = [ran |-> TRUE, in |-> in, fault |-> fault,
                                   user |-> RowOf(udata, o.defaultPrefix)]
            ELSE stmts' = <<>> /\ pathErr' = o.err /\ UNCHANGED <<udata, edit>>
         /\ conn' = ConnOfProcessJoomla(o)
    /\ cmd' = "edit"
    /\ cmdErr' = "nil"
    /\ UNCHANGED info
    /\ UNCHANGED <<resolveVars, extractVars, versionVars, roleVars, listVars, pathVars, wpVars>>

\* The command wrote an error message: the log.Printf of the final check, which
\* reads cmdErr, or the fmt.Println of the ListUsers error inside listUsers.
Reported == cmdErr # "nil" \/ (cmd = "list" /\ pathErr = "list users")

\* Every return of joomla.ShowInfo(cmsPath), with what Connect and
\* IdentifyPrefixes gave it: the error of IdentifyPrefixes is assigned to _.
ShowInfoOutcomes(c, tbls) ==
    UNION {
      IF x.err # "nil"
      THEN {[ran |-> TRUE, err |-> "extract", connect |-> "nil",
             identify |-> NotCalled]}
      ELSE UNION {
        IF ce # "nil"
        THEN {[ran |-> TRUE, err |-> "connect", connect |-> ce,
               identify |-> NotCalled]}
        ELSE {[ran |-> TRUE, err |-> "nil", connect |-> "nil", identify |-> r] :
               r \in IdentifyOn(x.cfg, tbls)} :
        ce \in ConnectOutcomes(x.cfg) } :
      x \in ExtractOutcomes(c, JoomlaKeys) }

\* showInfo: err = joomla.ShowInfo(cmsPath), the outer err
InfoGeneral ==
    /\ cmd = "none"
    /\ \E o \in ShowInfoOutcomes(content, tables) :
         /\ info' = o
         /\ conn' = ConnOfShowInfo(o)
         /\ pathErr' = o.err
         /\ cmdErr' = o.err
    /\ cmd' = "info"
    /\ UNCHANGED <<pj, resolved, stmts, udata, edit>>
    /\ UNCHANGED <<resolveVars, extractVars, versionVars, roleVars, listVars, pathVars, wpVars>>

----------------------------------------------------------------------------
(* Version files *)

v310    == <<"3", ".", "1", "0">>
v25     == <<"2", ".", "5">>
vV3     == <<"v", "3">>
vStable == <<"S", "t", "a", "b", "l", "e">>
vDev    == <<"d", "e", "v">>
vDate   == <<"2", "0", "2", "2">>

\* One assignment of a version file: public $NAME = 'val'; or
\* const NAME = 'val'; when quoted, const NAME = val; when not.
VLine(style, name, quoted, val) ==
    [style |-> style, name |-> name, quoted |-> quoted, val |-> val]

VersionLines ==
    { VLine("public", "RELEASE", TRUE, v310),
      VLine("public", "RELEASE", TRUE, v25),
      VLine("public", "DEV_LEVEL", TRUE, <<"6">>),
      VLine("public", "DEV_STATUS", TRUE, vStable),
      VLine("public", "RELDATE", TRUE, vDate),
      VLine("const", "RELEASE", TRUE, v310),
      VLine("const", "RELEASE", TRUE, vV3),
      VLine("const", "DEV_LEVEL", TRUE, <<"6">>),
      VLine("const", "DEV_STATUS", TRUE, vStable),
      VLine("const", "RELTYPE", TRUE, vDev),
      VLine("const", "MAJOR_VERSION", FALSE, <<"4">>),
      VLine("const", "MINOR_VERSION", FALSE, <<"4">>),
      VLine("const", "PATCH_VERSION", FALSE, <<"0">>),
      VLine("const", "PATCH_VERSION", FALSE, <<"2">>),
      VLine("const", "EXTRA_VERSION", TRUE, empty),
      VLine("const", "EXTRA_VERSION", TRUE, vDev) }

----------------------------------------------------------------------------
(* joomla.GetVersion *)

\* A pattern of GetVersion: the keyword, the identifiers it names and its
\* group: '([^']+)' ("plus"), '([^']*)' ("star") or ([0-9]+) ("num").
Re(style, names, group) == [style |-> style, names |-> names, group |-> group]

reRel     == Re("public", {"RELEASE"}, "plus")
reLev     == Re("public", {"DEV_LEVEL"}, "plus")
reStat    == Re("public", {"DEV_STATUS"}, "plus")
reRelDat  == Re("public", {"RELDATE"}, "plus")
reCRel    == Re("const", {"RELEASE"}, "plus")
reCPatch  == Re("const", {"DEV_LEVEL"}, "plus")
reCStat   == Re("const", {"DEV_STATUS", "RELTYPE"}, "plus")
reMajor   == Re("const", {"MAJOR_VERSION"}, "num")
reMinor   == Re("const", {"MINOR_VERSION"}, "num")
reP4Patch == Re("const", {"PATCH_VERSION"}, "num")
reExtra   == Re("const", {"EXTRA_VERSION"}, "star")
reCRelDat == Re("const", {"RELDATE"}, "plus")

Accepts(r, line) ==
    /\ line.style = r.style
    /\ line.name \in r.names
    /\ CASE r.group = "plus" -> line.quoted /\ line.val # empty
         [] r.group = "star" -> line.quoted
         [] r.group = "num"  -> /\ ~line.quoted /\ line.val # empty
                                /\ \A k \in 1..Len(line.val) : line.val[k] \in Digits

Patterns ==
    << reRel, reLev, reStat, reRelDat, reCRel, reCPatch, reCStat, reMajor,
       reMinor, reP4Patch, reExtra, reCRelDat >>

PatternOf(line) == CHOOSE i \in 1..Len(Patterns) : Accepts(Patterns[i], line)

\* Each pattern is matched on its own, so only the order among the lines of
\* one pattern matters: the files of the model keep the lines of different
\* patterns in the order of Patterns.
Grouped(ls) ==
    \A i \in 1..(Len(ls) - 1) : PatternOf(ls[i]) <= PatternOf(ls[i + 1])

\* the readable version files of at most n lines
RECURSIVE VersionFiles(_)
VersionFiles(n) ==
    {Text(ls) : ls \in {q \in [1..n -> VersionLines] : Grouped(q)}}
    \cup (IF n = 0 THEN {} ELSE VersionFiles(n - 1))

\* the newer file next to a readable old one: missing, three-field, four-field
NewerFiles ==
    { Unreadable,
      Text(<<VLine("const", "RELEASE", TRUE, v310)>>),
      Text(<<VLine("const", "MAJOR_VERSION", FALSE, <<"4">>),
             VLine("const", "MINOR_VERSION", FALSE, <<"4">>)>>) }

\* the get and getC closures: the group of the leftmost match, or ""
Get(file, r) ==
    LET hits == {i \in 1..Len(file.lines) : Accepts(r, file.lines[i])}
    IN  IF hits = {} THEN empty
        ELSE file.lines[CHOOSE i \in hits : \A k \in hits : i <= k].val

NoVersion(e, reads) ==
    [version |-> empty, relDate |-> empty, err |-> e, reads |-> reads]

Version(v, d, reads) == [version |-> v, relDate |-> d, err |-> "nil", reads |-> reads]

ThreeFieldPlaceholders(rel, lvl, st) ==
    rel \o <<".">> \o lvl \o <<" ", "(">> \o st \o <<")">>

\* release[.patch][ (status)]
ThreeField(rel, lvl, st) ==
    rel \o (IF lvl # empty THEN <<".">> \o lvl ELSE empty)
        \o (IF st # empty THEN <<" ", "(">> \o st \o <<")">> ELSE empty)

FourFieldKeepsZero(maj, min, p, e) ==
    maj \o <<".">> \o min
        \o (IF p # empty THEN <<".">> \o p ELSE empty)
        \o (IF e # empty THEN <<"-">> \o e ELSE empty)

\* major.minor[.patch][-extra]
FourField(maj, min, p, e) ==
    maj \o <<".">> \o min
        \o (IF p # empty /\ p # <<"0">> THEN <<".">> \o p ELSE empty)
        \o (IF e # empty THEN <<"-">> \o e ELSE empty)

\* 1) the property-style file, once it was read
OldStyle(file, reads) ==
    LET rel == Get(file, reRel)
    IN  IF rel = empty THEN NoVersion("no RELEASE", reads)
        ELSE Version(ThreeField(rel, Get(file, reLev), Get(file, reStat)),
                     Get(file, reRelDat), reads)

\* 2) the constant-style file, once it was read: 2a) then 2b)
NewStyle(file, reads) ==
    LET rel == Get(file, reCRel)
        maj == Get(file, reMajor)
        min == Get(file, reMinor)
    IN  IF rel # empty
        THEN Version(ThreeField(rel, Get(file, reCPatch), Get(file, reCStat)),
                     Get(file, reCRelDat), reads)
        ELSE IF maj = empty \/ min = empty
        THEN NoVersion("could not parse", reads)
        ELSE Version(FourField(maj, min, Get(file, reP4Patch),
                               Get(file, reExtra)),
                     Get(file, reCRelDat), reads)

GetVersionMerging(old, new) ==
    IF old.readable /\ (Get(old, reRel) # empty \/ ~new.readable)
    THEN OldStyle(old, <<"old">>)
    ELSE IF ~new.readable THEN NoVersion("could not find", <<"old", "new">>)
    ELSE NewStyle(new, <<"old", "new">>)

\* GetVersion(cmsPath), with the files it read in order
GetVersion(old, new) ==
    IF old.readable THEN OldStyle(old, <<"old">>)
    ELSE IF ~new.readable THEN NoVersion("could not find", <<"old", "new">>)
    ELSE NewStyle(new, <<"old", "new">>)

NoVer == [called |-> FALSE, version |-> empty, relDate |-> empty, err |-> "nil",
          reads |-> <<>>]

\* showVersion of main.go, Joomla branch: joomla.GetVersion(cmsPath)
ShowVersion ==
    /\ LET g == GetVersion(oldFile, newFile)
       IN  ver' = [called |-> TRUE, version |-> g.version, relDate |-> g.relDate,
                   err |-> g.err, reads |-> g.reads]
    /\ UNCHANGED <<oldFile, newFile, hashed>>
    /\ UNCHANGED <<resolveVars, extractVars, flowVars, roleVars, listVars, pathVars, wpVars>>

----------------------------------------------------------------------------
(* parseMajorVersion, joomlaHashAuto *)

IsDelim(c) == c = "." \/ c = " "

\* strings.FieldsFunc(v, f) with f true of '.' and ' ': the maximal runs of
\* the other characters, in order
RECURSIVE FieldsFunc(_, _, _)
FieldsFunc(v, cur, out) ==
    LET closed == IF cur = <<>> THEN out ELSE Append(out, cur)
    IN  IF v = <<>> THEN closed
        ELSE IF IsDelim(Head(v)) THEN FieldsFunc(Tail(v), <<>>, closed)
        ELSE FieldsFunc(Tail(v), Append(cur, Head(v)), out)

parseMajorVersion(v) ==
    LET f == FieldsFunc(v, <<>>, <<>>)
    IN  IF Len(f) = 0 THEN AtoiError ELSE Atoi(f[1])

\* the major version assumed when GetVersion fails
AssumedMajor == 2

\* the first major version whose passwords are bcrypt hashes
BcryptMajor == 3

vPw == <<"p", "w">>

\* 16 random bytes in hex, shortened
Salts == {<<"a", "1">>, <<"0", "f">>}

\* rand.Read and bcrypt.GenerateFromPassword may return an error
HashFaults == {"none", "rand", "bcrypt"}

\* %x of md5.Sum: a digest that stands for its input
Md5Hex(x) == <<"md5">> \o x

\* bcrypt.GenerateFromPassword at the default cost
Bcrypt(password, salt) == <<"$", "2", "a", "$", "1", "0", "$">> \o salt \o password

NoHash(branch, e) == [branch |-> branch, text |-> empty, err |-> e]

LegacyAtMost(major) == major <= BcryptMajor

\* if major < 3
Legacy(major) == major < BcryptMajor

MajorAssumedModern(g, pm) == IF g.err # "nil" THEN BcryptMajor ELSE pm.n

\* var major: the assumed one when GetVersion failed, else the parsed one
MajorOf(g, pm) == IF g.err # "nil" THEN AssumedMajor ELSE pm.n

\* joomlaHashAuto(cmsPath, password), with the branch it took
joomlaHashAuto(old, new, password, salt, fault) ==
    LET g  == GetVersion(old, new)
        pm == parseMajorVersion(g.version)
    IN  IF g.err = "nil" /\ pm.err THEN NoHash("none", "parse major version")
        ELSE LET major == MajorOf(g, pm)
             IN  IF Legacy(major)
                 THEN IF fault = "rand" THEN NoHash("legacy", "salt gen")
                      ELSE [branch |-> "legacy",
                            text |-> Md5Hex(password \o salt) \o <<":">> \o salt,
                            err |-> "nil"]
                 ELSE IF fault = "bcrypt" THEN NoHash("adaptive", "bcrypt hash")
                      ELSE [branch |-> "adaptive", text |-> Bcrypt(password, salt),
                            err |-> "nil"]

NotHashed == [called |-> FALSE, branch |-> "none", text |-> empty, err |-> "nil"]

\* the password step of EditUser: joomlaHashAuto(cmsPath, newPass)
HashPassword ==
    /\ \E salt \in Salts, fault \in HashFaults :
         LET h == joomlaHashAuto(oldFile, newFile, vPw, salt, fault)
         IN  hashed' = [called |-> TRUE, branch |-> h.branch, text |-> h.text,
                        err |-> h.err]
    /\ UNCHANGED <<oldFile, newFile, ver>>
    /\ UNCHANGED <<resolveVars, extractVars, flowVars, roleVars, listVars, pathVars, wpVars>>

----------------------------------------------------------------------------
(* wordpress.identifyUserRole *)

\* strings.Contains
Contains(s, sub) ==
    \E i \in 1..(Len(s) - Len(sub) + 1) : SubSeq(s, i, i + Len(sub) - 1) = sub

\* the if/else chain: the substring tested and the role returned, in order
RoleChain ==
    << [sub |-> <<"a", "d", "m", "i", "n", "i", "s", "t", "r", "a", "t", "o", "r">>,
        role |-> "Administrator"],
       [sub |-> <<"e", "d", "i", "t", "o", "r">>, role |-> "Editor"],
       [sub |-> <<"a", "u", "t", "h", "o", "r">>, role |-> "Author"],
       [sub |-> <<"c", "o", "n", "t", "r", "i", "b", "u", "t", "o", "r">>,
        role |-> "Contributor"],
       [sub |-> <<"s", "u", "b", "s", "c", "r", "i", "b", "e", "r">>,
        role |-> "Subscriber"] >>

RECURSIVE FirstContained(_, _)
FirstContained(lowerCaps, k) ==
    IF k > Len(RoleChain) THEN "Unknown"
    ELSE IF Contains(lowerCaps, RoleChain[k].sub) THEN RoleChain[k].role
    ELSE FirstContained(lowerCaps, k + 1)

RoleWithoutFolding(capabilities) == FirstContained(capabilities, 1)

identifyUserRole(capabilities) == FirstContained(ToLower(capabilities), 1)

\* The pieces capability strings are put together from: role names in
\* several spellings, halves of a role name, and the serialisation around them.
CapParts ==
    { <<"a", "d", "m", "i", "n", "i", "s", "t", "r", "a", "t", "o", "r">>,
      <<"A", "d", "m", "i", "n", "i", "s", "t", "r", "a", "t", "o", "r">>,
      <<"E", "D", "I", "T", "O", "R">>,
      <<"a", "u", "t", "h", "o", "r">>,
      <<"C", "o", "n", "t", "r", "i", "b", "u", "t", "o", "r">>,
      <<"s", "u", "b", "s", "c", "r", "i", "b", "e", "r">>,
      <<"e", "d", "i", "t">>, <<"o", "r">>,
      <<"a", ":", "1", ":", "{", "s", ":", "\"">>, <<"\"", ";", "b", ":", "1", ";", "}">>,
      <<"a", "d", "m", "i", "n">> }

RECURSIVE Concat(_)
Concat(parts) == IF parts = <<>> THEN <<>> ELSE Head(parts) \o Concat(Tail(parts))

CapStrings == {Concat(ps) : ps \in SeqsUpTo(CapParts, MaxCapParts)}

RoleIdle == caps = empty /\ role = "unset"

\* wordpress.ListUsers: user.Role = identifyUserRole(capabilities)
IdentifyUserRole ==
    /\ role' = identifyUserRole(caps)
    /\ UNCHANGED caps
    /\ UNCHANGED <<resolveVars, extractVars, flowVars, versionVars, listVars, pathVars, wpVars>>

----------------------------------------------------------------------------
(* joomla.ListUsers *)

\* the group titles mapped to a user: one group, two groups, none, in turn
RolesOfUser(id) ==
    CASE id % 3 = 1 -> {"Registered"}
      [] id % 3 = 2 -> {"Registered", "Manager"}
      [] OTHER      -> {}

\* One row of the listing query for the user: GROUP_CONCAT joins the titles
\* in an order the query does not fix, and is NULL for a user without group,
\* which leaves u.Roles nil.
RowsOfUser(id) == {[id |-> id, roles |-> q] : q \in Orders(RolesOfUser(id))}

\* the rows in the order given, each with one of its renderings
RECURSIVE Renderings(_)
Renderings(ids) ==
    IF ids = <<>> THEN {<<>>}
    ELSE {<<r>> \o rest : r \in RowsOfUser(Head(ids)), rest \in Renderings(Tail(ids))}

\* Every list ListUsers(db, prefix) can return on the rows: the query has
\* GROUP BY u.id and no ORDER BY, so the rows come in any order, and they
\* are appended as they come.
ListUsersOutcomes(ids) == UNION {Renderings(order) : order \in Orders(ids)}

ListIdle == userIds = {} /\ listed = <<>>

\* users list: one call of joomla.ListUsers(db, prefix)
ListUsers ==
    /\ Len(listed) < MaxCalls
    /\ \E users \in ListUsersOutcomes(userIds) : listed' = Append(listed, users)
    /\ UNCHANGED userIds
    /\ UNCHANGED <<resolveVars, extractVars, flowVars, versionVars, roleVars, pathVars, wpVars>>

----------------------------------------------------------------------------
(* main.go: the -p/--path option, app.Before and detectCMS *)

fWpConfig == "wp-config.php"
fConfiguration == "configuration.php"
ConfigFiles == {fWpConfig, fConfiguration}

Cwd == "."
Dirs == {Cwd, "/srv/a", "/srv/b"}
Absent == [exists |-> FALSE, files |-> {}]
Present(files) == [exists |-> TRUE, files |-> files]

\* the file systems an invocation may run in: the working directory exists
FileSystems ==
    {d \in [Dirs -> {Absent} \cup {Present(F) : F \in SUBSET ConfigFiles}] :
        d[Cwd].exists}

\* what may follow -p on the command line; "" stands for an omitted option
OptPaths == {""} \cup (Dirs \ {Cwd})

\* the directory a path names: the empty path joins to a relative file name,
\* which the system resolves against the working directory
DirOf(path) == IF path = "" THEN Cwd ELSE path

\* os.Stat(path) succeeds
Exists(path) == dirs[DirOf(path)].exists

\* os.Stat(filepath.Join(path, file)) succeeds
StatJoin(path, file) == Exists(path) /\ file \in dirs[DirOf(path)].files

detectCMS(path) ==
    IF StatJoin(path, fWpConfig) THEN "wordpress"
    ELSE IF StatJoin(path, fConfiguration) THEN "joomla"
    ELSE ""

NotRun == "not run"

\* the value cmsPath holds once the options are parsed: the pointer
\* app.StringOpt returns is dropped, so nothing assigns the variable
ParsedPath(opt) == ""

PathIdle ==
    /\ optPath = "" /\ dirs = [d \in Dirs |-> Present({})]
    /\ cmsPath = "" /\ phase = "start" /\ detected = NotRun

\* main up to the command: option parsing, then app.Before
Main ==
    /\ phase = "start"
    /\ cmsPath' = ParsedPath(optPath)
    /\ phase' = IF cmsPath' # "" /\ ~Exists(cmsPath') THEN "fatal" ELSE "parsed"
    /\ UNCHANGED <<optPath, dirs, detected>>
    /\ UNCHANGED <<resolveVars, extractVars, flowVars, versionVars, roleVars, listVars, wpVars>>

\* the command's first step: detectCMS()
DetectCMS ==
    /\ phase = "parsed"
    /\ detected' = detectCMS(cmsPath)
    /\ phase' = "done"
    /\ UNCHANGED <<optPath, dirs, cmsPath>>
    /\ UNCHANGED <<resolveVars, extractVars, flowVars, versionVars, roleVars, listVars, wpVars>>

----------------------------------------------------------------------------
(* wordpress.GetUserByUsername, wordpress.UpdateUser, wordpress.EditUser *)

sUserMeta == <<"_", "u", "s", "e", "r", "m", "e", "t", "a">>

\* the table names written into the WordPress statements
tWpUsers    == pWp \o sUsers
tWpUserMeta == pWp \o sUserMeta

\* the meta keys UpdateUser ranges over
MetaKeys == {"first_name", "last_name", "nickname"}

WpStmt(op, tbls) == [op |-> op, tables |-> tbls]

NoWpEdit == [ran |-> FALSE, err |-> "nil", log |-> <<>>]

WpIdle == wpEdit = NoWpEdit

WpFaults == {"none", "lookup", "begin", "upd_exec", "meta_exec", "commit"}

\* the UPDATE wp_usermeta statements of the loop, one per key the user holds,
\* in the order the runtime ranges over metaFields
MetaUpdates(order) == [i \in 1..Len(order) |-> WpStmt("update_meta", {tWpUserMeta})]

\* GetUserByUsername(db, username): one SELECT joining wp_users and wp_usermeta
WpGetUser(tbls, fault) ==
    [log |-> <<WpStmt("get_user", {tWpUsers, tWpUserMeta})>>,
     err |-> IF {tWpUsers, tWpUserMeta} \subseteq tbls /\ fault # "lookup"
             THEN "nil" ELSE "get user"]

\* UpdateUser(db, user), user holding the meta keys of order
WpUpdateUser(order, fault) ==
    LET begin  == <<WpStmt("begin", {})>>
        update == <<WpStmt("update_user", {tWpUsers})>>
        back   == <<WpStmt("rollback", {})>>
    IN  IF fault = "begin" THEN [log |-> <<>>, err |-> "begin tx"]
        ELSE IF fault = "upd_exec"
        THEN [log |-> begin \o update \o back, err |-> "update user"]
        ELSE IF fault = "meta_exec" /\ order # <<>>
        THEN [log |-> begin \o update \o SubSeq(MetaUpdates(order), 1, 1) \o back,
              err |-> "update user meta"]
        ELSE IF fault = "commit"
        THEN [log |-> begin \o update \o MetaUpdates(order)
                        \o <<WpStmt("commit", {})>>,
              err |-> "commit"]
        ELSE [log |-> begin \o update \o MetaUpdates(order)
                        \o <<WpStmt("commit", {})>>,
              err |-> "nil"]

\* Every run of wordpress.EditUser(cmsPath, username) on the configuration c
\* and the database tables tbls.
WpEditUserOutcomes(c, tbls) ==
    UNION {
      IF x.err # "nil"
      THEN {[ran |-> TRUE, err |-> "extract", log |-> <<>>]}
      ELSE UNION {
        IF ce # "nil"
        THEN {[ran |-> TRUE, err |-> "connect", log |-> <<>>]}
        ELSE UNION {
          LET g == WpGetUser(tbls, fault)
          IN  IF g.err # "nil"
              THEN {[ran |-> TRUE, err |-> g.err, log |-> g.log]}
              ELSE { LET u == WpUpdateUser(order, fault)
                     IN  [ran |-> TRUE, err |-> u.err, log |-> g.log \o u.log] :
                     order \in UNION {Orders(m) : m \in SUBSET MetaKeys} } :
          fault \in WpFaults } :
        ce \in ConnectOutcomes(x.cfg) } :
      x \in ExtractOutcomes(c, WordPressKeys) }

\* users edit in a WordPress installation
WpEditUser ==
    /\ ~wpEdit.ran
    /\ wpEdit' \in WpEditUserOutcomes(content, tables)
    /\ UNCHANGED <<resolveVars, extractVars, flowVars, versionVars, roleVars, listVars, pathVars>>

----------------------------------------------------------------------------
(* Specifications *)

\* the prefixes P for which the listing holds P_users
UsersPrefixes == {TrimSuffix(t, sUsers) : t \in {x \in tables : HasSuffix(x, sUsers)}}

ResolveIdle ==
    /\ dbRes = NotCalled /\ jRes = NotCalled
    /\ dbSeen = {} /\ jSeen = {}

ExtractIdle == jExt = NotExtracted /\ wExt = NotExtracted

NoInfo == [ran |-> FALSE, err |-> "nil", connect |-> "nil", identify |-> NotCalled]

NoEdit ==
    [ran |-> FALSE, in |-> [name |-> "", email |-> "", pass |-> "", roles |-> <<>>],
     fault |-> "none", user |-> NoRow]

FlowIdle ==
    /\ cmd = "none" /\ pj = NoReturn /\ resolved = NotCalled
    /\ stmts = <<>> /\ pathErr = "nil" /\ cmdErr = "nil"
    /\ edit = NoEdit
    /\ info = NoInfo
    /\ conn = NoConn

NoData == [p \in {} |-> NoRow]

VersionIdle == ver = NoVer /\ hashed = NotHashed

NoVersionFiles == oldFile = Unreadable /\ newFile = Unreadable

\* Prefix resolution on every listing of at most MaxTables tables.
InitResolve ==
    /\ tables \in Listings
    /\ dbType \in DbTypes
    /\ ResolveIdle
    /\ content = Unreadable /\ ExtractIdle
    /\ FlowIdle /\ udata = NoData
    /\ NoVersionFiles /\ VersionIdle
    /\ RoleIdle
    /\ ListIdle
    /\ PathIdle
    /\ WpIdle

NextResolve == DbIdentifyPrefixes \/ JIdentifyPrefixes

SpecResolve == InitResolve /\ [][NextResolve]_vars

\* Configuration extraction on every text of at most MaxLines lines.
InitExtract ==
    /\ content \in Contents
    /\ ExtractIdle
    /\ tables = {} /\ dbType = tMysql /\ ResolveIdle
    /\ FlowIdle /\ udata = NoData
    /\ NoVersionFiles /\ VersionIdle
    /\ RoleIdle
    /\ ListIdle
    /\ PathIdle
    /\ WpIdle

NextExtract == JoomlaExtractDBConfig \/ WordPressExtractDBConfig

SpecExtract == InitExtract /\ [][NextExtract]_vars

\* the tables of the databases the command flows run on
FlowTables ==
    { pJm \o sUsers, pJm \o sUserMap, pJm \o sUserGroups,
      pJu \o sUsers, pWp \o sUsers }

\* the configuration files the command flows read: unreadable, without any
\* recognised key, or with one prefix or type assignment
FlowContents ==
    {Unreadable, Text(<<>>)}
    \cup {Text(<<l>>) : l \in {x \in ConfigLines : x.key \in {"dbprefix", "dbtype"}}}

\* One invocation of the users list or the users edit command in a Joomla
\* installation: the process runs one command and exits.
InitFlow ==
    /\ tables \in SUBSET FlowTables
    /\ content \in FlowContents
    /\ \E present \in BOOLEAN :
         udata = [p \in UsersPrefixes |-> IF present THEN Row0 ELSE NoRow]
    /\ dbType = tMysql /\ ResolveIdle
    /\ ExtractIdle
    /\ FlowIdle
    /\ NoVersionFiles /\ VersionIdle
    /\ RoleIdle
    /\ ListIdle
    /\ PathIdle
    /\ WpIdle

NextFlow == UsersList \/ UsersEdit \/ InfoGeneral

SpecFlow == InitFlow /\ [][NextFlow]_vars

\* Version resolution and hashing on every version file of at most
\* MaxVerLines lines, in either location.
InitVersion ==
    /\ \/ oldFile \in VersionFiles(MaxVerLines) /\ newFile \in NewerFiles
       \/ oldFile = Unreadable /\ newFile \in VersionFiles(MaxVerLines) \cup {Unreadable}
    /\ VersionIdle
    /\ tables = {} /\ dbType = tMysql /\ ResolveIdle
    /\ content = Unreadable /\ ExtractIdle
    /\ FlowIdle /\ udata = NoData
    /\ RoleIdle
    /\ ListIdle
    /\ PathIdle
    /\ WpIdle

NextVersion == ShowVersion \/ HashPassword

SpecVersion == InitVersion /\ [][NextVersion]_vars

\* Role derivation on every capability string of at most MaxCapParts pieces.
InitRole ==
    /\ caps \in CapStrings
    /\ role = "unset"
    /\ tables = {} /\ dbType = tMysql /\ ResolveIdle
    /\ content = Unreadable /\ ExtractIdle
    /\ FlowIdle /\ udata = NoData
    /\ NoVersionFiles /\ VersionIdle
    /\ ListIdle
    /\ PathIdle
    /\ WpIdle

NextRole == IdentifyUserRole

SpecRole == InitRole /\ [][NextRole]_vars

\* Repeated listings of every users table of at most MaxUsers rows, with no
\* write in between.
InitList ==
    /\ userIds \in SUBSET (1..MaxUsers)
    /\ listed = <<>>
    /\ tables = {} /\ dbType = tMysql /\ ResolveIdle
    /\ content = Unreadable /\ ExtractIdle
    /\ FlowIdle /\ udata = NoData
    /\ NoVersionFiles /\ VersionIdle
    /\ RoleIdle
    /\ PathIdle
    /\ WpIdle

NextList == ListUsers

SpecList == InitList /\ [][NextList]_vars

\* One invocation in every file system of Dirs, with and without -p.
InitPath ==
    /\ optPath \in OptPaths
    /\ dirs \in FileSystems
    /\ cmsPath = "" /\ phase = "start" /\ detected = NotRun
    /\ tables = {} /\ dbType = tMysql /\ ResolveIdle
    /\ content = Unreadable /\ ExtractIdle
    /\ FlowIdle /\ udata = NoData
    /\ NoVersionFiles /\ VersionIdle
    /\ RoleIdle
    /\ ListIdle
    /\ WpIdle

NextPath == Main \/ DetectCMS

SpecPath == InitPath /\ [][NextPath]_vars

\* the tables the WordPress databases of the model hold: a WordPress
\* installation under the prefix wp, under the prefix Jm, or parts of both
WpTables ==
    { pWp \o sUsers, pWp \o sPosts, pWp \o sUserMeta,
      pJm \o sUsers, pJm \o sPosts, pJm \o sUserMeta }

\* One users edit in a WordPress installation.
InitWpEdit ==
    /\ tables \in SUBSET WpTables
    /\ content \in {Unreadable, Text(<<>>)}
    /\ wpEdit = NoWpEdit
    /\ dbType = tMysql /\ ResolveIdle
    /\ ExtractIdle
    /\ FlowIdle /\ udata = NoData
    /\ NoVersionFiles /\ VersionIdle
    /\ RoleIdle
    /\ ListIdle
    /\ PathIdle

NextWpEdit == WpEditUser

SpecWpEdit == InitWpEdit /\ [][NextWpEdit]_vars

----------------------------------------------------------------------------
(* Prefix resolution: properties *)

Has(tbls, P, suffix) == (P \o suffix) \in tbls

DbReturned == dbRes.called /\ dbRes.err = "nil"
JReturned == jRes.called /\ jRes.err = "nil"

WordPressOnly(P) ==
    /\ Has(tables, P, sUsers) /\ Has(tables, P, sPosts)
    /\ ~Has(tables, P, sUserMap) /\ ~Has(tables, P, sUserGroups)

JoomlaFull(P) ==
    /\ Has(tables, P, sUsers)
    /\ Has(tables, P, sUserMap) /\ Has(tables, P, sUserGroups)

BothShapes(P) ==
    /\ Has(tables, P, sUsers) /\ Has(tables, P, sPosts)
    /\ (Has(tables, P, sUserMap) \/ Has(tables, P, sUserGroups))

\* C1: a listing with P_users and P_posts and neither P_user_usergroup_map nor
\* P_usergroups makes database.IdentifyPrefixes return P exactly once.
C1_WordPressShapeOnce ==
    DbReturned =>
        \A P \in UsersPrefixes : WordPressOnly(P) => Count(P, dbRes.prefixes) = 1

C1_Witness ==
    /\ DbReturned
    /\ \E P \in UsersPrefixes : WordPressOnly(P)
    /\ \E P \in UsersPrefixes : ~WordPressOnly(P)

\* C2: a listing with P_users, P_user_usergroup_map and P_usergroups makes
\* both database.IdentifyPrefixes and joomla.IdentifyPrefixes return P.
C2_JoomlaShapeBothResolvers ==
    \A P \in UsersPrefixes :
        JoomlaFull(P) =>
            /\ DbReturned => P \in Range(dbRes.prefixes)
            /\ JReturned => P \in Range(jRes.prefixes)

C2_Witness ==
    /\ DbReturned /\ JReturned
    /\ \E P \in UsersPrefixes : JoomlaFull(P) /\ ~Has(tables, P, sPosts)

\* C3: P_users with at least one of P_user_usergroup_map, P_usergroups is
\* enough for database.IdentifyPrefixes to return P, also without P_posts.
C3_EitherCompanionSuffices ==
    DbReturned =>
        \A P \in UsersPrefixes :
            (Has(tables, P, sUserMap) \/ Has(tables, P, sUserGroups))
                => P \in Range(dbRes.prefixes)

\* C4: every prefix database.IdentifyPrefixes returns has P_users and at
\* least one of P_posts, P_user_usergroup_map, P_usergroups in the listing.
C4_UsersAnchorAndCompanion ==
    \A P \in Range(dbRes.prefixes) :
        /\ Has(tables, P, sUsers)
        /\ \/ Has(tables, P, sPosts)
           \/ Has(tables, P, sUserMap)
           \/ Has(tables, P, sUserGroups)

C4_Witness ==
    /\ DbReturned /\ dbRes.prefixes # <<>>
    /\ \E t \in tables : ~HasSuffix(t, sUsers)
                         /\ TrimSuffix(t, sPosts) \notin Range(dbRes.prefixes)
                         /\ TrimSuffix(t, sUserMap) \notin Range(dbRes.prefixes)
                         /\ TrimSuffix(t, sUserGroups) \notin Range(dbRes.prefixes)
    /\ \E P \in UsersPrefixes : P \notin Range(dbRes.prefixes)

Sorted(q) == \A i, j \in 1..Len(q) : i < j => ~StrLess(q[j], q[i])
DuplicateFree(q) == \A i, j \in 1..Len(q) : i # j => q[i] # q[j]

\* C5: the returned list is lexicographically sorted and duplicate-free, and
\* every call on the same set of tables returns the same list, whatever the
\* order of the rows and of the map iteration.
C5_SortedDeterministic ==
    /\ Cardinality(dbSeen) <= 1
    /\ Cardinality(jSeen) <= 1
    /\ \A q \in dbSeen \cup jSeen : Sorted(q) /\ DuplicateFree(q)

C5_Witness ==
    /\ \E q \in dbSeen : Len(q) >= 2
    /\ \E q \in jSeen : Len(q) >= 2

----------------------------------------------------------------------------
(* Configuration extraction: properties *)

KeyAbsent(key) == \A i \in 1..Len(content.lines) : content.lines[i].key # key

\* the fields of a returned descriptor whose keys the text does not hold are
\* the defaults: Type "mysql", Port 3306, the rest empty
DefaultsKept(r, keys) ==
    /\ (KeyAbsent("dbtype") \/ "dbtype" \notin keys) => r.cfg.Type = tMysql
    /\ KeyAbsent("host") => r.cfg.Host = empty /\ r.cfg.Port = 3306
    /\ KeyAbsent("user") => r.cfg.User = empty
    /\ KeyAbsent("password") => r.cfg.Password = empty
    /\ KeyAbsent("db") => r.cfg.DBName = empty
    /\ (KeyAbsent("dbprefix") \/ "dbprefix" \notin keys) => r.prefix = empty

\* C9: ExtractDBConfig (joomla and wordpress) fails only on an unreadable
\* file; on every readable text it returns no error and leaves the fields of
\* absent keys at their defaults.
C9_ExtractFailsOnlyUnreadable ==
    /\ jExt.called =>
         /\ jExt.err = "nil" <=> content.readable
         /\ content.readable => DefaultsKept(jExt, JoomlaKeys)
    /\ wExt.called =>
         /\ wExt.err = "nil" <=> content.readable
         /\ content.readable => DefaultsKept(wExt, WordPressKeys)

C9_Witness ==
    /\ jExt.called /\ wExt.called /\ content.readable
    /\ \A i \in 1..Len(content.lines) : content.lines[i].key = "other"
    /\ content.lines # <<>>
    /\ jExt.cfg.Port = 3306 /\ wExt.cfg.Type = tMysql

\* the value the host pattern captures: the first non-empty host assignment
HostCaptured ==
    LET at == {i \in 1..Len(content.lines) :
                 content.lines[i].key = "host" /\ content.lines[i].val # empty}
    IN  IF at = {} THEN empty
        ELSE content.lines[CHOOSE i \in at : \A k \in at : i <= k].val

Plain(s) == \A i \in 1..Len(s) : s[i] \notin {":", "[", "]"}

\* the decimal numerals of the model's ports and their values
Numeral(s) ==
    /\ s # <<>>
    /\ \A i \in 1..Len(s) : s[i] \in Digits \/ (i = 1 /\ s[i] = "-" /\ Len(s) > 1)

RECURSIVE Pow10(_)
Pow10(k) == IF k = 0 THEN 1 ELSE 10 * Pow10(k - 1)

Magnitude(ds) ==
    LET Term(i) == DigitVal(ds[i]) * Pow10(Len(ds) - i)
        sum[i \in 0..Len(ds)] == IF i = 0 THEN 0 ELSE sum[i - 1] + Term(i)
    IN  sum[Len(ds)]

NumeralVal(s) == IF s[1] = "-" THEN 0 - Magnitude(Tail(s)) ELSE Magnitude(s)

\* what C10 asks of one descriptor, for the captured value hv
HostPortRule(r, hv) ==
    /\ r.err = "nil"
    /\ Plain(hv) => r.cfg.Host = hv /\ r.cfg.Port = 3306
    /\ \A k \in 1..Len(hv) :
         LET h == SubSeq(hv, 1, k - 1)
             p == SubSeq(hv, k + 1, Len(hv))
         IN  (hv[k] = ":" /\ Plain(h) /\ Plain(p)) =>
                 /\ r.cfg.Host = h
                 /\ r.cfg.Port = IF Numeral(p) THEN NumeralVal(p) ELSE 3306

\* C10: host:port is split into Host and the numeric Port; a port that is no
\* integer leaves Host split and Port at the default, without error; a value
\* with no port is stored whole with Port at the default.
C10_HostPortSplit ==
    /\ (jExt.called /\ HostCaptured # empty) => HostPortRule(jExt, HostCaptured)
    /\ (wExt.called /\ HostCaptured # empty) => HostPortRule(wExt, HostCaptured)

C10_Witness ==
    /\ jExt.called /\ wExt.called
    /\ HostCaptured = <<"h", ":", "7", "h">>
    /\ jExt.cfg.Host = <<"h">> /\ wExt.cfg.Host = <<"h">>

----------------------------------------------------------------------------
(* Command flows: properties *)

\* the prefix the configuration declares: the first non-empty dbprefix
\* assignment, less one trailing underscore
ConfigHint ==
    LET at == {i \in 1..Len(content.lines) :
                 content.lines[i].key = "dbprefix" /\ content.lines[i].val # empty}
    IN  IF at = {} THEN empty
        ELSE TrimSuffix(content.lines[CHOOSE i \in at : \A k \in at : i <= k].val,
                        <<"_">>)

Identified == cmd # "none" /\ resolved.called /\ resolved.err = "nil"

\* C7: a non-empty hinted prefix that is not in the resolved set (the empty
\* set included) is what ProcessJoomla returns, without error.
C7_HintRetained ==
    (Identified /\ ConfigHint # empty /\ ConfigHint \notin Range(resolved.prefixes))
        => /\ pj.err = "nil"
           /\ pj.db = "open"
           /\ pj.defaultPrefix = ConfigHint

C7_Witness ==
    /\ Identified
    /\ ConfigHint # empty
    /\ resolved.prefixes # <<>>
    /\ ConfigHint \notin Range(resolved.prefixes)
    /\ pj.defaultPrefix = ConfigHint

UserStatements ==
    {"list_users", "get_user", "update_password", "delete_roles",
     "insert_role", "update_profile"}

\* C8: after a resolution that found no installation, with no prefix hint in
\* the configuration, the list and edit flows issue no user-listing query, no
\* user lookup and no update statement.
C8_NoStatementAfterEmptyResolution ==
    (Identified /\ resolved.prefixes = <<>> /\ ConfigHint = empty)
        => \A i \in 1..Len(stmts) : stmts[i].op \notin UserStatements

\* the port a database family listens on by convention
ConventionalPort(t) == IF t = tPostgres THEN 5432 ELSE 3306

\* what C11 asks of one returned descriptor
FamilyDefaults(r) ==
    /\ ConnectOutcomes(r.cfg) # {"unsupported"}
    /\ Plain(HostCaptured) => r.cfg.Port = ConventionalPort(r.cfg.Type)

\* C11: every descriptor ExtractDBConfig returns has a Type that Connect
\* supports and, when the text gives no port, the conventional port of that
\* Type's family (MySQL's for mysql, PostgreSQL's for postgres).
C11_FamilyPortAndSupportedType ==
    (jExt.called /\ jExt.err = "nil") => FamilyDefaults(jExt)

----------------------------------------------------------------------------
(* Version resolution and hashing: properties *)

\* what GetVersion returned, without the record of the files it read
Outcome(g) == <<g.version, g.relDate, g.err>>

\* C12: when the old property-style file is readable, GetVersion reads that
\* file only and its result (version, release date or error) is the same
\* whatever the newer file holds, also when the old file has no RELEASE and
\* the newer one has.
C12_CommitsToFirstReadable ==
    (ver.called /\ oldFile.readable) =>
        /\ ver.reads = <<"old">>
        /\ \A f \in NewerFiles : Outcome(GetVersion(oldFile, f)) = Outcome(ver)

C12_Witness ==
    /\ ver.called /\ oldFile.readable
    /\ \A i \in 1..Len(oldFile.lines) : oldFile.lines[i].name # "RELEASE"
    /\ oldFile.lines # <<>>
    /\ newFile.readable /\ newFile.lines[1].name = "RELEASE"
    /\ ver.err # "nil"

\* the file GetVersion commits to: the first readable candidate
Committed == IF oldFile.readable THEN oldFile ELSE newFile

\* the value of the leftmost assignment of one of the identifiers in the
\* given style, "" when there is none
Assigned(file, style, names) ==
    LET at == {i \in 1..Len(file.lines) :
                 file.lines[i].style = style /\ file.lines[i].name \in names}
    IN  IF at = {} THEN empty
        ELSE file.lines[CHOOSE i \in at : \A k \in at : i <= k].val

\* the file holds a release identifier of the given style
HasRelease(file, style) ==
    \/ Assigned(file, style, {"RELEASE"}) # empty
    \/ /\ Assigned(file, style, {"MAJOR_VERSION"}) # empty
       /\ Assigned(file, style, {"MINOR_VERSION"}) # empty

\* C13: the committed file yields a version whenever it holds a release
\* identifier in either style, whichever location it was read from.
C13_BothSchemesInCommittedFile ==
    (ver.called /\ Committed.readable
       /\ (HasRelease(Committed, "public") \/ HasRelease(Committed, "const")))
        => ver.err = "nil"

\* the style GetVersion reads the committed file in
CommittedStyle == IF oldFile.readable THEN "public" ELSE "const"

Release == Assigned(Committed, CommittedStyle, {"RELEASE"})
Patch3  == Assigned(Committed, CommittedStyle, {"DEV_LEVEL"})
Status  ==
    Assigned(Committed, CommittedStyle,
             IF oldFile.readable THEN {"DEV_STATUS"} ELSE {"DEV_STATUS", "RELTYPE"})

\* C14: in the three-field scheme the display string is the release, then
\* "." and the patch only when there is a patch, then " (status)" only when
\* there is a status; RELEASE '3.10', DEV_LEVEL '6', DEV_STATUS 'Stable' give
\* "3.10.6 (Stable)".
C14_ThreeFieldDisplay ==
    (ver.called /\ Committed.readable /\ Release # empty) =>
        /\ ver.err = "nil"
        /\ Patch3 = empty /\ Status = empty => ver.version = Release
        /\ Patch3 # empty /\ Status = empty
             => ver.version = Release \o <<".">> \o Patch3
        /\ Patch3 = empty /\ Status # empty
             => ver.version = Release \o <<" ", "(">> \o Status \o <<")">>
        /\ Patch3 # empty /\ Status # empty
             => ver.version = Release \o <<".">> \o Patch3
                                \o <<" ", "(">> \o Status \o <<")">>
        /\ (Release = v310 /\ Patch3 = <<"6">> /\ Status = vStable)
             => ver.version = << "3", ".", "1", "0", ".", "6", " ", "(",
                                 "S", "t", "a", "b", "l", "e", ")" >>

C14_Witness ==
    /\ ver.called /\ oldFile.readable
    /\ Release = v310 /\ Patch3 = <<"6">> /\ Status = vStable
    /\ Len(ver.version) = 15

Major  == Assigned(newFile, "const", {"MAJOR_VERSION"})
Minor  == Assigned(newFile, "const", {"MINOR_VERSION"})
Patch4 == Assigned(newFile, "const", {"PATCH_VERSION"})
Extra  == Assigned(newFile, "const", {"EXTRA_VERSION"})

StartsWith(s, p) == Len(s) >= Len(p) /\ SubSeq(s, 1, Len(p)) = p

\* C15: in the constant-style file the four-field scheme is used only when
\* there is no RELEASE constant; it fails unless MAJOR_VERSION and
\* MINOR_VERSION are both there, and gives major.minor, then "." and the
\* patch only when there is one other than 0, then "-" and the extra only
\* when it is not empty; 4, 4, 0 give "4.4".
C15_FourFieldDisplay ==
    (ver.called /\ ~oldFile.readable /\ newFile.readable) =>
        /\ Release # empty => ver.err = "nil" /\ StartsWith(ver.version, Release)
        /\ (Release = empty /\ (Major = empty \/ Minor = empty)) => ver.err # "nil"
        /\ (Release = empty /\ Major # empty /\ Minor # empty) =>
             /\ ver.err = "nil"
             /\ ver.version =
                  Major \o <<".">> \o Minor
                    \o (IF Patch4 \notin {empty, <<"0">>} THEN <<".">> \o Patch4
                        ELSE empty)
                    \o (IF Extra # empty THEN <<"-">> \o Extra ELSE empty)
        /\ (Release = empty /\ Major = <<"4">> /\ Minor = <<"4">>
              /\ Patch4 = <<"0">> /\ Extra = empty)
             => ver.version = <<"4", ".", "4">>

C15_Witness ==
    /\ ver.called /\ ~oldFile.readable /\ newFile.readable
    /\ Release = empty /\ Major = <<"4">> /\ Minor = <<"4">> /\ Patch4 = <<"0">>
    /\ ver.version = <<"4", ".", "4">>

\* the resolved version and its leading token: what precedes the first '.'
\* or space
Resolved == GetVersion(oldFile, newFile)

LeadingToken(v) ==
    LET at == {i \in 1..Len(v) : v[i] \in {".", " "}}
    IN  IF at = {} THEN v
        ELSE SubSeq(v, 1, (CHOOSE i \in at : \A k \in at : i <= k) - 1)

\* C16: for a resolved version whose leading token is an integer m, the
\* legacy digest:salt scheme is selected exactly when m < 3 and the adaptive
\* scheme exactly when m >= 3.
C16_SchemeByMajor ==
    (hashed.called /\ Resolved.err = "nil" /\ Numeral(LeadingToken(Resolved.version)))
        => LET m == NumeralVal(LeadingToken(Resolved.version))
           IN  /\ hashed.branch = "legacy" <=> m < 3
               /\ hashed.branch = "adaptive" <=> m >= 3
               /\ (hashed.branch = "legacy" /\ hashed.err = "nil")
                    => \E k \in 1..Len(hashed.text) :
                         /\ hashed.text[k] = ":"
                         /\ SubSeq(hashed.text, k + 1, Len(hashed.text)) \in Salts
                         /\ SubSeq(hashed.text, 1, k - 1) # empty

C16_Witness ==
    /\ hashed.called /\ Resolved.err = "nil"
    /\ LeadingToken(Resolved.version) = <<"3">>
    /\ hashed.branch = "adaptive" /\ hashed.err = "nil"

\* C17 as claimed: whenever the major version cannot be determined, because
\* GetVersion failed or because the leading token is no number, the legacy
\* scheme is used and no error comes from the version.
C17_LegacyWheneverUnknown ==
    (hashed.called
       /\ (Resolved.err # "nil" \/ ~Numeral(LeadingToken(Resolved.version))))
        => hashed.branch = "legacy" /\ hashed.err # "parse major version"

\* C17 amended: the legacy scheme is the fallback when GetVersion failed; a
\* resolved version whose leading token is no number makes joomlaHashAuto
\* return the parse error and no hash.
C17_LegacyWhenUnresolved ==
    hashed.called =>
        /\ Resolved.err # "nil"
             => hashed.branch = "legacy" /\ hashed.err # "parse major version"
        /\ (Resolved.err = "nil" /\ ~Numeral(LeadingToken(Resolved.version)))
             => /\ hashed.err = "parse major version"
                /\ hashed.branch = "none" /\ hashed.text = empty

C17_Witness ==
    /\ hashed.called /\ Resolved.err # "nil"
    /\ oldFile.readable
    /\ hashed.branch = "legacy" /\ hashed.err = "nil"

----------------------------------------------------------------------------
(* joomla.EditUser: properties *)

EditRan == cmd = "edit" /\ edit.ran

Issued(op) == \E i \in 1..Len(stmts) : stmts[i].op = op

\* the statement the fault of the run strikes was issued
FaultStruck ==
    CASE edit.fault \in {"pw_exec", "pw_rows"}     -> Issued("update_password")
      [] edit.fault \in {"del_exec", "del_rows"}   -> Issued("delete_roles")
      [] edit.fault \in {"ins_exec", "ins_rows"}   -> Issued("insert_role")
      [] edit.fault \in {"prof_exec", "prof_rows"} -> Issued("update_profile")
      [] edit.fault = "commit"                     -> Issued("commit")
      [] OTHER                                     -> FALSE

RolledBack ==
    /\ stmts # <<>> /\ stmts[Len(stmts)].op = "rollback"
    /\ ~Issued("commit")

\* the row of the edited user is what EditUser read before the transaction
RowAsBefore == RowOf(udata, pj.defaultPrefix) = edit.user

C19_EveryWriteChecksOneRow ==
    (EditRan /\ FaultStruck
       /\ edit.fault \in {"pw_rows", "del_rows", "ins_rows", "prof_rows"})
        => pathErr # "nil" /\ RolledBack /\ RowAsBefore

Typed(field) == edit.in[field] # ""

WriteStatements ==
    {"update_password", "delete_roles", "insert_role", "update_profile"}

\* C20: a typed value equal to the current one causes no write statement for
\* its field (the same name and email: no name/email update; a role list
\* equal to the current roles: no delete and no insert), and a run in which
\* no typed value differs leaves the database unchanged.
C20_OnlyDifferingFieldsWritten ==
    EditRan =>
        /\ (edit.in.name \in {"", edit.user.name}
              /\ edit.in.email \in {"", edit.user.email})
             => ~Issued("update_profile")
        /\ (edit.in.roles # <<>> /\ Range(edit.in.roles) = edit.user.roles)
             => ~Issued("delete_roles") /\ ~Issued("insert_role")
        /\ (edit.in.name \in {"", edit.user.name}
              /\ edit.in.email \in {"", edit.user.email}
              /\ edit.in.pass = ""
              /\ (edit.in.roles = <<>> \/ Range(edit.in.roles) = edit.user.roles))
             => /\ \A i \in 1..Len(stmts) : stmts[i].op \notin WriteStatements
                /\ RowAsBefore

\* C21: every error a database step returns inside ShowInfo (the prefix
\* identification) and inside EditUser (the group lookup of a role included)
\* makes the operation return an error.
C21_NoDatabaseErrorSwallowed ==
    /\ (cmd = "info" /\ info.identify.called /\ info.identify.err # "nil")
         => info.err # "nil"
    /\ (EditRan /\ edit.fault = "sel_exec" /\ Issued("select_group"))
         => pathErr # "nil"

----------------------------------------------------------------------------
(* Role derivation: properties *)

\* the two characters are the same letter in either case, or the same character
SameFolded(a, b) ==
    \/ a = b
    \/ \E i \in 1..Len(UpperCase) :
         {a, b} = {UpperCase[i], LowerCase[i]}

\* name occurs in s as a case-insensitive substring
OccursIn(name, s) ==
    \E i \in 1..(Len(s) - Len(name) + 1) :
        \A k \in 1..Len(name) : SameFolded(s[i + k - 1], name[k])

KnownRoles ==
    << <<<<"a", "d", "m", "i", "n", "i", "s", "t", "r", "a", "t", "o", "r">>, "Administrator">>,
       <<<<"e", "d", "i", "t", "o", "r">>, "Editor">>,
       <<<<"a", "u", "t", "h", "o", "r">>, "Author">>,
       <<<<"c", "o", "n", "t", "r", "i", "b", "u", "t", "o", "r">>, "Contributor">>,
       <<<<"s", "u", "b", "s", "c", "r", "i", "b", "e", "r">>, "Subscriber">> >>

\* C22: the role is the first name, in the order administrator, editor,
\* author, contributor, subscriber, that occurs in the capability string as a
\* case-insensitive substring, and "Unknown" when none occurs.
C22_FirstRoleInOrder ==
    role # "unset" =>
        /\ \A k \in 1..Len(KnownRoles) :
             (OccursIn(KnownRoles[k][1], caps)
                /\ \A j \in 1..(k - 1) : ~OccursIn(KnownRoles[j][1], caps))
               => role = KnownRoles[k][2]
        /\ (\A k \in 1..Len(KnownRoles) : ~OccursIn(KnownRoles[k][1], caps))
             => role = "Unknown"

C22_Witness ==
    /\ role = "Editor"
    /\ OccursIn(<<"s", "u", "b", "s", "c", "r", "i", "b", "e", "r">>, caps)
    /\ Contains(caps, <<"E", "D", "I", "T", "O", "R">>)
    /\ Contains(caps, <<"s", "u", "b", "s", "c", "r", "i", "b", "e", "r">>) /\ ~Contains(caps, <<"e", "d", "i", "t", "o", "r">>)

----------------------------------------------------------------------------
(* User listing: properties *)

\* C23: two calls of the user listing on the same rows, with no write in
\* between, return the same users in the same order, whatever order the
\* database delivers the rows in.
C23_ListingRepeatable ==
    \A i, j \in 1..Len(listed) : listed[i] = listed[j]

----------------------------------------------------------------------------
(* Connections and error reporting: properties *)

\* C24: an invocation opens at most one database connection and has closed
\* every connection it opened when the command ends, on success and on error.
C24_ConnectionClosed ==
    cmd # "none" => conn.opened <= 1 /\ conn.closed = conn.opened


----------------------------------------------------------------------------
(* The path option: properties *)

\* C25: with -p/--path given, detection looks in the option's directory and a
\* directory that does not exist stops the program before any command runs;
\* with the option omitted, detection looks in the working directory.
C25_PathOptionUsed ==
    /\ phase = "done" => detected = detectCMS(optPath)
    /\ (phase # "start" /\ ~Exists(optPath)) => phase = "fatal"


----------------------------------------------------------------------------
(* The WordPress edit: properties *)

FlagsIn(tbls, p) ==
    [users |-> (p \o sUsers) \in tbls, posts |-> (p \o sPosts) \in tbls,
     userMap |-> (p \o sUserMap) \in tbls,
     userGroups |-> (p \o sUserGroups) \in tbls]

\* the prefixes prefix resolution finds in the database
ResolvedIn(tbls) ==
    {p \in {TrimSuffix(t, sUsers) : t \in {x \in tbls : HasSuffix(x, sUsers)}} :
       HasUsers(FlagsIn(tbls, p)) /\ ShapeOK(FlagsIn(tbls, p))}

\* the tables the statements of the run name
Touched == UNION {wpEdit.log[i].tables : i \in 1..Len(wpEdit.log)}

\* C26: when the database resolves to one prefix P, whatever P is, the user
\* lookup and update of an edit name P_users and P's companion tables and no
\* table of another prefix.
C26_OnlyResolvedPrefixTouched ==
    \A P \in ResolvedIn(tables) :
        (wpEdit.ran /\ ResolvedIn(tables) = {P} /\ wpEdit.log # <<>>)
        => Touched \subseteq {P \o sUsers, P \o sUserMeta}


\* C27: when the configuration gives no prefix hint and prefix resolution
\* returns a non-empty list, the prefix ProcessJoomla returns is a member of
\* that list, never the empty string.
C27_ReturnsResolvedPrefix ==
    (cmd \in {"list", "edit"} /\ Identified /\ pj.err = "nil"
       /\ ConfigHint = empty /\ resolved.prefixes # <<>>)
    => pj.defaultPrefix \in Range(resolved.prefixes)


\* the run of EditUser committed a change of the user's roles
RoleChangeCommitted ==
    /\ EditRan /\ pathErr = "nil" /\ Issued("commit")
    /\ edit.in.roles # <<>>

\* C28: after a committed role change, with every statement doing what it
\* says, the user's role-mapping rows are exactly the requested titles; a
\* title that matches no user group never leaves the user with fewer roles.
C28_CommittedRolesAsRequested ==
    (RoleChangeCommitted /\ edit.fault = "none")
        => RowOf(udata, pj.defaultPrefix).roles = Range(edit.in.roles)


\* the positions of the log holding one of the operations
At(ops) == {i \in 1..Len(stmts) : stmts[i].op \in ops}

\* the place of a write step in the order password, role delete, role
\* inserts, name/email
StepRank(op) ==
    CASE op = "update_password" -> 1
      [] op = "delete_roles"    -> 2
      [] op = "insert_role"     -> 3
      [] op = "update_profile"  -> 4

\* C29: a run of EditUser that begins a transaction ends it exactly once, by
\* Commit or by Rollback, as its last statement; every write lies after the
\* Begin and before the end; the writes come in the order password, role
\* delete, role inserts, name/email; a run whose lookup fails begins no
\* transaction and issues no write.
C29_TransactionEndedOnce ==
    EditRan =>
        /\ Cardinality(At({"begin"})) <= 1
        /\ Issued("begin")
             => /\ Cardinality(At({"commit", "rollback"})) = 1
                /\ At({"commit", "rollback"}) = {Len(stmts)}
        /\ ~Issued("begin") => At({"commit", "rollback"}) = {}
        /\ \A i \in At(WriteStatements) :
             /\ \E b \in At({"begin"}) : b < i
             /\ \A e \in At({"commit", "rollback"}) : i < e
        /\ \A i, j \in At(WriteStatements) :
             i < j => StepRank(stmts[i].op) <= StepRank(stmts[j].op)
        /\ pathErr = "get user"
             => At({"begin"}) = {} /\ At(WriteStatements) = {}

\* a committed run that issued each of the four write steps
C29_Witness ==
    /\ EditRan /\ pathErr = "nil"
    /\ \A op \in WriteStatements : Issued(op)
    /\ stmts[Len(stmts)].op = "commit"

\* a run that rolled back after a write, and a run whose lookup failed
C29_WitnessRollback ==
    /\ EditRan /\ edit.fault = "ins_exec" /\ RolledBack
    /\ Issued("update_password") /\ Issued("insert_role")


----------------------------------------------------------------------------
(* Error reporting of the commands: properties *)

\* C30: in users list and users edit, every error of the Joomla path
\* (ProcessJoomla failing on the configuration, the connection or the prefix
\* identification, or EditUser failing) is reported to the user.
C30_JoomlaErrorsReported ==
    (cmd \in {"list", "edit"} /\ pathErr # "nil") => Reported

====
